---- MODULE Spec2Model ----
(***************************************************************************)
(* The order list screen of the florist CRM: the OrdersList controller     *)
(* (filters, page position, cached page of orders, loading and error       *)
(* flags), the pagination controls that drive it, the ApiService requests  *)
(* it issues and the order service that answers them.                      *)
(*                                                                         *)
(* JavaScript values are written as follows: null / undefined / an absent  *)
(* filter field is NoStatus for a status and NoExecutor for a user id; the *)
(* four OrderStatus strings are written with the names of the data model   *)
(* (NEW, IN_PROGRESS, READY, DELIVERED).                                   *)
(***************************************************************************)
EXTENDS Integers, Sequences, FiniteSets, Bags, TLC

VARIABLES
    state,          \* OrdersList: useState<OrderListState>
    users,          \* OrdersList: useState<User[]>, the ids of the loaded users
    usersLoading,   \* OrdersList: useState(true)
    reloads,        \* bag of the apiService.getOrders calls that have not settled
    edits,          \* bag of the updateOrderStatus / updateOrderExecutor calls not settled
    usersReq,       \* the apiService.getUsers call of the mount effect
    srv,            \* the order service's orders: id -> [status, executor_id]
    nEdits,         \* how many edits the user has issued
    out             \* the last step: its name, its toast, the request it settled

vars == <<state, users, usersLoading, reloads, edits, usersReq, srv, nEdits, out>>

----------------------------------------------------------------------------
(* Bounds of the model *)

\* orders held by the order service
NumOrders == 21
\* users held by the order service
NumUsers == 3
\* edits the modelled user issues in one run
MaxEdits == 1
\* the user stops clicking "next" at this page
MaxPage == 4
\* edits the modelled user issues in one run of SpecEdits
MaxConcurrentEdits == 2
\* the most pages, at the smallest page size, of the services of SpecPaging
MaxWindowPages == 9

----------------------------------------------------------------------------
(* Values *)

NoStatus == "none"
NoExecutor == 0
NoPrice == -1
NoError == "null"
LoadError == "load_failed"

statusOrder == <<"NEW", "IN_PROGRESS", "READY", "DELIVERED">>
OrderStatus == {statusOrder[i] : i \in 1..Len(statusOrder)}

pageSizes == {10, 20, 50, 100}
InitialPageSize == 20
maxVisible == 5
Ellipsis == -1

OrderIds == 1..NumOrders
UserIds == 1..NumUsers

\* the three failure kinds of ApiService.request
FailureKinds == {"network", "http_status", "bad_body"}

\* the order the modelled user edits and the executor they pick for it
EditIds == {2}
ExecutorPicks == {1}
\* the orders edited and the executors picked when editing only
ConcurrentEditIds == {2, 3}
ConcurrentExecutorPicks == {NoExecutor, 1}

\* the page sizes and filter criteria the modelled user enters
SizeChoices == {10, 20}
StatusChoices == {NoStatus, "NEW"}
ExecutorChoices == {NoExecutor}
Criteria == [status : StatusChoices, executor_id : ExecutorChoices,
             min_price : {NoPrice}, max_price : {NoPrice}]
EmptyFilters == [status |-> NoStatus, executor_id |-> NoExecutor,
                 min_price |-> NoPrice, max_price |-> NoPrice]

Min(a, b) == IF a <= b THEN a ELSE b
Max(a, b) == IF a >= b THEN a ELSE b

----------------------------------------------------------------------------
(* The Page Window Calculator *)

\* variant: the loops stop one short (i < b)
RangeExclusive(a, b) == [i \in 1..Max(0, b - a) |-> a + i - 1]

Range(a, b) == [i \in 1..Max(0, b - a + 1) |-> a + i - 1]

\* variant: the start of the list shows five pages
getPageNumbersFiveAtStart(currentPage, totalPages) ==
    IF totalPages <= maxVisible
    THEN Range(1, totalPages)
    ELSE IF currentPage <= 3
         THEN Range(1, 5) \o <<Ellipsis, totalPages>>
         ELSE IF currentPage >= totalPages - 2
              THEN <<1, Ellipsis>> \o Range(totalPages - 3, totalPages)
              ELSE <<1, Ellipsis>> \o Range(currentPage - 1, currentPage + 1)
                   \o <<Ellipsis, totalPages>>

\* variant: the end of the list begins one page later
getPageNumbersLateEnd(currentPage, totalPages) ==
    IF totalPages <= maxVisible
    THEN Range(1, totalPages)
    ELSE IF currentPage <= 3
         THEN Range(1, 4) \o <<Ellipsis, totalPages>>
         ELSE IF currentPage >= totalPages - 1
              THEN <<1, Ellipsis>> \o Range(totalPages - 3, totalPages)
              ELSE <<1, Ellipsis>> \o Range(currentPage - 1, currentPage + 1)
                   \o <<Ellipsis, totalPages>>

\* variant: the middle of the list has no second ellipsis
getPageNumbersOneEllipsis(currentPage, totalPages) ==
    IF totalPages <= maxVisible
    THEN Range(1, totalPages)
    ELSE IF currentPage <= 3
         THEN Range(1, 4) \o <<Ellipsis, totalPages>>
         ELSE IF currentPage >= totalPages - 2
              THEN <<1, Ellipsis>> \o Range(totalPages - 3, totalPages)
              ELSE <<1, Ellipsis>> \o Range(currentPage - 1, currentPage + 1)
                   \o <<totalPages>>

\* variant: the loop for the end of the list stops one short
getPageNumbersShortEnd(currentPage, totalPages) ==
    IF totalPages <= maxVisible
    THEN Range(1, totalPages)
    ELSE IF currentPage <= 3
         THEN Range(1, 4) \o <<Ellipsis, totalPages>>
         ELSE IF currentPage >= totalPages - 2
              THEN <<1, Ellipsis>> \o Range(totalPages - 3, totalPages - 1)
              ELSE <<1, Ellipsis>> \o Range(currentPage - 1, currentPage + 1)
                   \o <<Ellipsis, totalPages>>

\* variant: no branch for the start of the list
getPageNumbersNoStart(currentPage, totalPages) ==
    IF totalPages <= maxVisible
    THEN Range(1, totalPages)
    ELSE IF currentPage >= totalPages - 2
         THEN <<1, Ellipsis>> \o Range(totalPages - 3, totalPages)
         ELSE <<1, Ellipsis>> \o Range(currentPage - 1, currentPage + 1)
              \o <<Ellipsis, totalPages>>

getPageNumbers(currentPage, totalPages) ==
    IF totalPages <= maxVisible
    THEN Range(1, totalPages)
    ELSE IF currentPage <= 3
         THEN Range(1, 4) \o <<Ellipsis, totalPages>>
         ELSE IF currentPage >= totalPages - 2
              THEN <<1, Ellipsis>> \o Range(totalPages - 3, totalPages)
              ELSE <<1, Ellipsis>> \o Range(currentPage - 1, currentPage + 1)
                   \o <<Ellipsis, totalPages>>

\* variant: Math.floor in place of Math.ceil
FloorDiv(a, b) == a \div b

\* Math.ceil(total / page_size) for total >= 0, page_size > 0
CeilDiv(a, b) == (a + b - 1) \div b

totalPages == CeilDiv(state.pagination.total, state.pagination.page_size)

----------------------------------------------------------------------------
(* The order service *)

\* an Order as the service returns it: the executor object is embedded
OrderOf(db, i) ==
    [id |-> i, status |-> db[i].status, executor_id |-> db[i].executor_id,
     executor |-> db[i].executor_id]

\* created_at of the order with id i: as in mockOrders, the order with the
\* smaller id was created later
CreatedAt(i) == NumOrders - i

\* Array.prototype.sort with (a, b) => created_at(b) - created_at(a): the
\* stable arrangement, newest first. An element's place is one more than the
\* number of elements the comparator puts before it
sortPlaces(s) ==
    [k \in 1..Len(s) |->
        1 + Cardinality({j \in 1..Len(s) :
                            \/ CreatedAt(s[j]) - CreatedAt(s[k]) > 0
                            \/ CreatedAt(s[j]) - CreatedAt(s[k]) = 0 /\ j < k})]

sortArrange(s, place) ==
    [p \in 1..Len(s) |-> s[CHOOSE k \in 1..Len(s) : place[k] = p]]

SortNewestFirst(s) ==
    CHOOSE sorted \in {sortArrange(s, place) : place \in {sortPlaces(s)}} : TRUE

\* the service's orders in stored order
storedOrders(db) == [i \in 1..Cardinality(DOMAIN db) |-> i]

\* a filter value or a price that JavaScript takes as true: not null, not 0
Truthy(x) == x # NoPrice /\ x # 0

\* Array.prototype.slice(start, end)
Slice(s, start, end) ==
    LET n == Len(s)
        a == IF start < 0 THEN Max(n + start, 0) ELSE Min(start, n)
        b == IF end < 0 THEN Max(n + end, 0) ELSE Min(end, n)
    IN IF a >= b THEN <<>> ELSE SubSeq(s, a + 1, b)

Matches(db, i, filters) ==
    /\ (filters.status # NoStatus => db[i].status = filters.status)
    /\ (filters.executor_id # NoExecutor => db[i].executor_id = filters.executor_id)
    /\ (Truthy(filters.min_price) =>
           Truthy(db[i].total_price) /\ db[i].total_price >= filters.min_price)
    /\ (Truthy(filters.max_price) =>
           Truthy(db[i].total_price) /\ db[i].total_price <= filters.max_price)

\* mockApiCall from the sorted matches on: the slice and the response
pageOfOrders(db, filteredOrders, page, pageSize) ==
    LET startIndex == (page - 1) * pageSize
        endIndex == startIndex + pageSize
        ids == Slice(filteredOrders, startIndex, endIndex)
    IN [orders |-> [k \in 1..Len(ids) |-> OrderOf(db, ids[k])],
        total |-> Len(filteredOrders),
        page |-> page,
        page_size |-> pageSize]

\* mockApiCall: filter, sort, slice (each stage is computed once)
searchOrders(db, filters, page, pageSize) ==
    LET Keep(i) == Matches(db, i, filters)
    IN CHOOSE response \in
          {pageOfOrders(db, filteredOrders, page, pageSize) :
              filteredOrders \in
                 {SortNewestFirst(kept) : kept \in {SelectSeq(storedOrders(db), Keep)}}} :
          TRUE

\* PATCH /orders/{id} with {status} or {executor_id}
patchOrder(db, e) ==
    IF e.id \notin DOMAIN db THEN db
    ELSE IF e.kind = "status"
         THEN [db EXCEPT ![e.id].status = e.status]
         ELSE [db EXCEPT ![e.id].executor_id = e.executor_id]

----------------------------------------------------------------------------
(* OrdersList: state updates *)

\* what a step leaves in out: its name and the toast it raised ("none" if
\* none); a step that settles a request adds the command that had issued the
\* request (cause) and, if the request failed, why (kind)
Step(op, toast) == [op |-> op, toast |-> toast, cause |-> "", kind |-> ""]
Settled(op, toast, cause, kind) == [op |-> op, toast |-> toast, cause |-> cause, kind |-> kind]

Put(bag, x) == bag (+) SetToBag({x})
Take(bag, x) == bag (-) SetToBag({x})

\* loadOrders, before the await: loading on, error cleared
loadOrdersStart(st) == [st EXCEPT !.loading = TRUE, !.error = NoError]

\* variant: the response's records are appended to the cached page
loadOrdersAppends(st, response) ==
    [st EXCEPT !.orders = st.orders \o response.orders,
               !.pagination = [page |-> response.page,
                               page_size |-> response.page_size,
                               total |-> response.total],
               !.loading = FALSE]

\* loadOrders, the request resolved: the response replaces the page
loadOrdersSuccess(st, response) ==
    [st EXCEPT !.orders = response.orders,
               !.pagination = [page |-> response.page,
                               page_size |-> response.page_size,
                               total |-> response.total],
               !.loading = FALSE]

\* variant: the catch block goes back to the first page
loadOrdersFailureResetsPage(st) ==
    [st EXCEPT !.loading = FALSE, !.error = LoadError, !.pagination.page = 1]

\* variant: the catch block forgets to clear loading
loadOrdersFailureKeepsLoading(st) == [st EXCEPT !.error = LoadError]

\* loadOrders, the request threw
loadOrdersFailure(st) == [st EXCEPT !.loading = FALSE, !.error = LoadError]

\* an apiService.getOrders call in flight: call holds its arguments and
\* resp the service's answer once there is one; op, argFilters and argN are
\* the command that issued it and prev is the state the command found
Request(op, argFilters, argN, call) ==
    [op |-> op, argFilters |-> argFilters, argN |-> argN, call |-> call,
     resp |-> <<>>, prev |-> state, quiet |-> (edits = EmptyBag)]

getOrdersCall(filters, page, pageSize) ==
    [filters |-> filters, page |-> page, page_size |-> pageSize]

\* variant: the setState does not reset the page
filtersChangeKeepsPage(st, newFilters) == [st EXCEPT !.filters = newFilters]

\* handleFiltersChange: the setState before loadOrders
filtersChangeState(st, newFilters) ==
    [st EXCEPT !.filters = newFilters, !.pagination.page = 1]

\* handleFiltersChange: loadOrders(newFilters, 1, state.pagination.page_size)
filtersChangeCall(st, newFilters) ==
    getOrdersCall(newFilters, 1, st.pagination.page_size)

\* handlePageChange: loadOrders(state.filters, page, state.pagination.page_size)
pageChangeCall(st, page) ==
    getOrdersCall(st.filters, page, st.pagination.page_size)

\* variant: the new size is requested for the current page
pageSizeChangeKeepsPage(st, pageSize) ==
    getOrdersCall(st.filters, st.pagination.page, pageSize)

\* handlePageSizeChange: loadOrders(state.filters, 1, pageSize)
pageSizeChangeCall(st, pageSize) ==
    getOrdersCall(st.filters, 1, pageSize)

\* variant: loadOrders() always asks for the first page
firstPageCall(st) == getOrdersCall(st.filters, 1, st.pagination.page_size)

\* handleRefresh and the mount effect: loadOrders() with its defaults
defaultCall(st) ==
    getOrdersCall(st.filters, st.pagination.page, st.pagination.page_size)

\* variant: the map does not compare ids
applyStatusToAll(orders, orderId, newStatus) ==
    [k \in DOMAIN orders |-> [orders[k] EXCEPT !.status = newStatus]]

\* handleStatusChange: the map over prev.orders
applyStatus(orders, orderId, newStatus) ==
    [k \in DOMAIN orders |->
        IF orders[k].id = orderId
        THEN [orders[k] EXCEPT !.status = newStatus]
        ELSE orders[k]]

\* handleExecutorChange: users.find(u => u.id === executorId) || null
findExecutor(us, executorId) ==
    IF executorId # NoExecutor /\ executorId \in us THEN executorId ELSE NoExecutor

\* variant: the map does not compare ids
applyExecutorToAll(orders, orderId, executorId, executor) ==
    [k \in DOMAIN orders |->
        [orders[k] EXCEPT !.executor_id = executorId, !.executor = executor]]

\* handleExecutorChange: the map over prev.orders
applyExecutor(orders, orderId, executorId, executor) ==
    [k \in DOMAIN orders |->
        IF orders[k].id = orderId
        THEN [orders[k] EXCEPT !.executor_id = executorId, !.executor = executor]
        ELSE orders[k]]

\* the state update of a resolved edit
editSuccessState(st, e) ==
    IF e.kind = "status"
    THEN [st EXCEPT !.orders = applyStatus(st.orders, e.id, e.status)]
    ELSE [st EXCEPT !.orders = applyExecutor(st.orders, e.id, e.executor_id, e.executor)]

\* variant: the catch blocks update the page as if the edit had succeeded
editFailureApplies(st, e) == editSuccessState(st, e)

\* the catch blocks of handleStatusChange and handleExecutorChange: a toast only
editFailureState(st, e) == st

\* OrderStatusBadge.handleClick: the next status in the cycle
indexOf(s) == IF \E i \in 1..Len(statusOrder) : statusOrder[i] = s
              THEN (CHOOSE i \in 1..Len(statusOrder) : statusOrder[i] = s) - 1
              ELSE -1
nextStatus(s) == statusOrder[((indexOf(s) + 1) % Len(statusOrder)) + 1]

StatusEdit(o) ==
    [kind |-> "status", id |-> o.id, status |-> nextStatus(o.status),
     executor_id |-> NoExecutor, executor |-> NoExecutor, phase |-> "sent"]

ExecutorEdit(o, executorId) ==
    [kind |-> "executor", id |-> o.id, status |-> NoStatus,
     executor_id |-> executorId, executor |-> findExecutor(users, executorId),
     phase |-> "sent"]

----------------------------------------------------------------------------
(* Which controls the rendered screen offers *)

\* OrderFilters buttons: disabled={loading}, loading = state.loading || usersLoading
filtersEnabled == ~(state.loading \/ usersLoading)
\* OrderTable renders rows only when not loading
tableShown == ~(state.loading \/ usersLoading)
\* {totalPages > 0 && <OrderPagination .../>}
paginationShown == totalPages > 0
\* {totalPages > 1 && ( previous, numbers, next )}
navShown == paginationShown /\ totalPages > 1
\* variant: the Select and the Button are never disabled
controlsAlwaysEnabled == TRUE

\* disabled={loading} of the page-size Select and of the refresh Button
controlsEnabled == ~state.loading

----------------------------------------------------------------------------
(* Initial state: the first render and its mount effect *)

mounted(db) ==
    /\ state = [orders |-> <<>>, loading |-> TRUE, error |-> NoError,
                filters |-> EmptyFilters,
                pagination |-> [page |-> 1, page_size |-> InitialPageSize, total |-> 0]]
    /\ users = {}
    /\ usersLoading = TRUE
    /\ usersReq = TRUE
    /\ edits = EmptyBag
    /\ nEdits = 0
    /\ reloads = SetToBag({Request("mount", EmptyFilters, 0, defaultCall(state))})
    /\ srv = db
    /\ out = Step("mount", "none")

\* a service holding n new orders, none assigned, none priced
newOrders(n) ==
    [i \in 1..n |-> [status |-> "NEW", executor_id |-> NoExecutor, total_price |-> NoPrice]]

Init == mounted(newOrders(NumOrders))

----------------------------------------------------------------------------
(* loadUsers *)

UsersLoaded ==
    /\ usersReq
    /\ usersReq' = FALSE
    /\ users' = UserIds
    /\ usersLoading' = FALSE
    /\ out' = Step("users_ok", "none")
    /\ UNCHANGED <<state, reloads, edits, srv, nEdits>>

UsersFailed ==
    /\ usersReq
    /\ usersReq' = FALSE
    /\ usersLoading' = FALSE
    /\ out' = Step("users_failed", "error")
    /\ UNCHANGED <<state, users, reloads, edits, srv, nEdits>>

----------------------------------------------------------------------------
(* Commands *)

\* OrderFilters.handleSearch / handleReset -> handleFiltersChange
ApplyFilters(c) ==
    /\ filtersEnabled
    /\ c.executor_id \in {NoExecutor} \cup users
    /\ state' = loadOrdersStart(filtersChangeState(state, c))
    /\ reloads' = Put(reloads, Request("apply_filters", c, 0, filtersChangeCall(state, c)))
    /\ out' = Step("apply_filters", "none")
    /\ UNCHANGED <<users, usersLoading, usersReq, edits, srv, nEdits>>

\* handlePageChange
handlePageChange(page) ==
    /\ state' = loadOrdersStart(state)
    /\ reloads' = Put(reloads, Request("change_page", EmptyFilters, page,
                                        pageChangeCall(state, page)))
    /\ out' = Step("change_page", "none")
    /\ UNCHANGED <<users, usersLoading, usersReq, edits, srv, nEdits>>

ClickPrevious ==
    /\ navShown
    /\ ~(state.pagination.page = 1 \/ state.loading)
    /\ handlePageChange(state.pagination.page - 1)

ClickNext ==
    /\ navShown
    /\ ~(state.pagination.page = totalPages \/ state.loading)
    /\ state.pagination.page < MaxPage
    /\ handlePageChange(state.pagination.page + 1)

\* variant: the ellipsis entries are buttons like the others
ClickAnyEntry ==
    /\ navShown
    /\ \E k \in DOMAIN getPageNumbers(state.pagination.page, totalPages) :
          LET page == getPageNumbers(state.pagination.page, totalPages)[k]
          IN /\ ~state.loading
             /\ handlePageChange(page)

ClickPageNumber ==
    /\ navShown
    /\ \E k \in DOMAIN getPageNumbers(state.pagination.page, totalPages) :
          LET page == getPageNumbers(state.pagination.page, totalPages)[k]
          IN /\ ~(page = Ellipsis \/ state.loading)
             /\ handlePageChange(page)

\* handlePageSizeChange
ChangePageSize(size) ==
    /\ paginationShown
    /\ controlsEnabled
    /\ state' = loadOrdersStart(state)
    /\ reloads' = Put(reloads, Request("change_page_size", EmptyFilters, size,
                                        pageSizeChangeCall(state, size)))
    /\ out' = Step("change_page_size", "none")
    /\ UNCHANGED <<users, usersLoading, usersReq, edits, srv, nEdits>>

\* handleRefresh
Refresh ==
    /\ controlsEnabled
    /\ state' = loadOrdersStart(state)
    /\ reloads' = Put(reloads, Request("refresh", EmptyFilters, 0, defaultCall(state)))
    /\ out' = Step("refresh", "success")
    /\ UNCHANGED <<users, usersLoading, usersReq, edits, srv, nEdits>>

\* OrderStatusBadge.handleClick -> handleStatusChange, up to the await
ClickStatusBadge(k, budget) ==
    /\ tableShown
    /\ k \in DOMAIN state.orders
    /\ nEdits < budget
    /\ nEdits' = nEdits + 1
    /\ edits' = Put(edits, StatusEdit(state.orders[k]))
    /\ out' = Step("set_status", "none")
    /\ UNCHANGED <<state, users, usersLoading, usersReq, reloads, srv>>

\* variant: the executor Select offers ids that are not in the users list
SelectAnyExecutor(k, x, budget) ==
    /\ tableShown
    /\ k \in DOMAIN state.orders
    /\ nEdits < budget
    /\ nEdits' = nEdits + 1
    /\ edits' = Put(edits, ExecutorEdit(state.orders[k], x))
    /\ out' = Step("set_executor", "none")
    /\ UNCHANGED <<state, users, usersLoading, usersReq, reloads, srv>>

\* the executor Select of OrderTable -> handleExecutorChange, up to the await
SelectExecutor(k, x, budget) ==
    /\ tableShown
    /\ k \in DOMAIN state.orders
    /\ x \in {NoExecutor} \cup users
    /\ nEdits < budget
    /\ nEdits' = nEdits + 1
    /\ edits' = Put(edits, ExecutorEdit(state.orders[k], x))
    /\ out' = Step("set_executor", "none")
    /\ UNCHANGED <<state, users, usersLoading, usersReq, reloads, srv>>

----------------------------------------------------------------------------
(* The order service answers *)

ServeSearch(r) ==
    /\ BagIn(r, reloads)
    /\ r.resp = <<>>
    /\ reloads' = Put(Take(reloads, r),
                      [r EXCEPT !.resp = <<searchOrders(srv, r.call.filters, r.call.page,
                                                       r.call.page_size)>>])
    /\ out' = Step("serve_search", "none")
    /\ UNCHANGED <<state, users, usersLoading, usersReq, edits, srv, nEdits>>

ServePatch(e) ==
    /\ BagIn(e, edits)
    /\ e.phase = "sent"
    /\ srv' = patchOrder(srv, e)
    /\ edits' = Put(Take(edits, e), [e EXCEPT !.phase = "applied"])
    /\ out' = Step("serve_patch", "none")
    /\ UNCHANGED <<state, users, usersLoading, usersReq, reloads, nEdits>>

----------------------------------------------------------------------------
(* Requests settle *)

\* fetch rejects at any time; a non-2xx answer carries no data; a 2xx answer
\* whose body does not parse was produced by the service
FailureAt(kind, served) ==
    \/ kind = "network"
    \/ kind = "http_status" /\ ~served
    \/ kind = "bad_body" /\ served

ReloadSucceeds(r) ==
    /\ BagIn(r, reloads)
    /\ r.resp # <<>>
    /\ state' = loadOrdersSuccess(state, r.resp[1])
    /\ reloads' = Take(reloads, r)
    /\ out' = Settled("reload_ok", "none", r.op, "")
    /\ UNCHANGED <<users, usersLoading, usersReq, edits, srv, nEdits>>

ReloadFails(r, kind) ==
    /\ BagIn(r, reloads)
    /\ FailureAt(kind, r.resp # <<>>)
    /\ state' = loadOrdersFailure(state)
    /\ reloads' = Take(reloads, r)
    /\ out' = Settled("reload_failed", "error", r.op, kind)
    /\ UNCHANGED <<users, usersLoading, usersReq, edits, srv, nEdits>>

EditSucceeds(e) ==
    /\ BagIn(e, edits)
    /\ e.phase = "applied"
    /\ state' = editSuccessState(state, e)
    /\ edits' = Take(edits, e)
    /\ out' = Settled("edit_ok", "success", e.kind, "")
    /\ UNCHANGED <<users, usersLoading, usersReq, reloads, srv, nEdits>>

EditFails(e, kind) ==
    /\ BagIn(e, edits)
    /\ FailureAt(kind, e.phase = "applied")
    /\ state' = editFailureState(state, e)
    /\ edits' = Take(edits, e)
    /\ out' = Settled("edit_failed", "error", e.kind, kind)
    /\ UNCHANGED <<users, usersLoading, usersReq, reloads, srv, nEdits>>

----------------------------------------------------------------------------

Next ==
    \/ UsersLoaded
    \/ UsersFailed
    \/ \E c \in Criteria : ApplyFilters(c)
    \/ ClickPrevious
    \/ ClickNext
    \/ ClickPageNumber
    \/ \E size \in SizeChoices : ChangePageSize(size)
    \/ Refresh
    \/ \E k \in DOMAIN state.orders :
          state.orders[k].id \in EditIds /\ ClickStatusBadge(k, MaxEdits)
    \/ \E k \in DOMAIN state.orders, x \in ExecutorPicks :
          state.orders[k].id \in EditIds /\ SelectExecutor(k, x, MaxEdits)
    \/ \E r \in BagToSet(reloads) : ServeSearch(r)
    \/ \E e \in BagToSet(edits) : ServePatch(e)
    \/ \E r \in BagToSet(reloads) : ReloadSucceeds(r)
    \/ \E r \in BagToSet(reloads), kind \in FailureKinds : ReloadFails(r, kind)
    \/ \E e \in BagToSet(edits) : EditSucceeds(e)
    \/ \E e \in BagToSet(edits), kind \in FailureKinds : EditFails(e, kind)

Spec == Init /\ [][Next]_vars

\* the screen used for editing only: the page is loaded and refreshed, and
\* up to MaxConcurrentEdits edits are issued and answered in any order
NextEdits ==
    \/ UsersLoaded
    \/ UsersFailed
    \/ Refresh
    \/ \E k \in DOMAIN state.orders :
          /\ state.orders[k].id \in ConcurrentEditIds
          /\ ClickStatusBadge(k, MaxConcurrentEdits)
    \/ \E k \in DOMAIN state.orders, x \in ConcurrentExecutorPicks :
          /\ state.orders[k].id \in ConcurrentEditIds
          /\ SelectExecutor(k, x, MaxConcurrentEdits)
    \/ \E r \in BagToSet(reloads) : ServeSearch(r)
    \/ \E e \in BagToSet(edits) : ServePatch(e)
    \/ \E r \in BagToSet(reloads) : ReloadSucceeds(r)
    \/ \E r \in BagToSet(reloads), kind \in FailureKinds : ReloadFails(r, kind)
    \/ \E e \in BagToSet(edits) : EditSucceeds(e)
    \/ \E e \in BagToSet(edits), kind \in FailureKinds : EditFails(e, kind)

SpecEdits == Init /\ [][NextEdits]_vars

\* paging through services of different sizes: 0 orders, and for each number
\* of pages up to MaxWindowPages the fewest orders that fill them at the
\* smallest page size
smallestPageSize == CHOOSE s \in pageSizes : \A t \in pageSizes : s <= t
StoredCounts == {0} \cup {smallestPageSize * (t - 1) + 1 : t \in 1..MaxWindowPages}

InitPaging == \E n \in StoredCounts : mounted(newOrders(n))

NextPaging ==
    \/ UsersLoaded
    \/ ClickPrevious
    \/ ClickNext
    \/ ClickPageNumber
    \/ \E size \in SizeChoices : ChangePageSize(size)
    \/ \E r \in BagToSet(reloads) : ServeSearch(r)
    \/ \E r \in BagToSet(reloads) : ReloadSucceeds(r)

SpecPaging == InitPaging /\ [][NextPaging]_vars

\* searching and editing over priced orders: the four mockOrders (status,
\* executor, total_price) and a fifth order whose total is 0
pricedOrders ==
    <<[status |-> "NEW",         executor_id |-> 1,          total_price |-> 15000],
      [status |-> "IN_PROGRESS", executor_id |-> NoExecutor, total_price |-> 25000],
      [status |-> "READY",       executor_id |-> 2,          total_price |-> 8000],
      [status |-> "DELIVERED",   executor_id |-> 3,          total_price |-> 12000],
      [status |-> "NEW",         executor_id |-> NoExecutor, total_price |-> 0]>>

\* the criteria entered, the order edited and the executors tried for it; the
\* last of them is the id of no user
PricedCriteria == [status : {NoStatus, "NEW"}, executor_id : {NoExecutor, 1},
                   min_price : {NoPrice, 10000}, max_price : {NoPrice, 20000}]
PricedEditIds == {4}
PricedExecutorPicks == {NoExecutor, 2, NumUsers + 1}

InitPriced == mounted(pricedOrders)

NextPriced ==
    \/ UsersLoaded
    \/ UsersFailed
    \/ \E c \in PricedCriteria : ApplyFilters(c)
    \/ \E k \in DOMAIN state.orders :
          state.orders[k].id \in PricedEditIds /\ ClickStatusBadge(k, MaxEdits)
    \/ \E k \in DOMAIN state.orders, x \in PricedExecutorPicks :
          state.orders[k].id \in PricedEditIds /\ SelectExecutor(k, x, MaxEdits)
    \/ \E r \in BagToSet(reloads) : ServeSearch(r)
    \/ \E e \in BagToSet(edits) : ServePatch(e)
    \/ \E r \in BagToSet(reloads) : ReloadSucceeds(r)
    \/ \E e \in BagToSet(edits) : EditSucceeds(e)

SpecPriced == InitPriced /\ [][NextPriced]_vars

----------------------------------------------------------------------------
(* What a step did, read off the state before and after it *)

\* the step issued the getOrders call r
Issues(r) == r.resp = <<>> /\ reloads' = Put(reloads, r)
\* the step settled the getOrders call r
SettlesReload(r) == BagIn(r, reloads) /\ reloads' = Take(reloads, r)
\* the step settled the edit e
SettlesEdit(e) == BagIn(e, edits) /\ edits' = Take(edits, e)

PageOf(response) ==
    [page |-> response.page, page_size |-> response.page_size, total |-> response.total]

----------------------------------------------------------------------------
(* C1: apply_filters(criteria) makes criteria the active filters, sets the  *)
(* current page to 1 and issues one reload for (criteria, 1, current page   *)
(* size), leaving the cached records alone; when that reload fails the      *)
(* cached records are still those shown before the command, the error is    *)
(* set, and the filters are the new criteria with current page 1.           *)
C1_ApplyFilters ==
    [][ /\ out'.op = "apply_filters" =>
              \E r \in BagToSet(reloads') :
                 /\ Issues(r)
                 /\ r.op = "apply_filters"
                 /\ r.call = [filters |-> r.argFilters, page |-> 1,
                              page_size |-> state.pagination.page_size]
                 /\ state'.filters = r.argFilters
                 /\ state'.pagination.page = 1
                 /\ state'.orders = state.orders
        /\ \A r \in BagToSet(reloads) :
              (out'.op = "reload_failed" /\ SettlesReload(r) /\ r.op = "apply_filters") =>
                 /\ state'.orders = state.orders
                 /\ (r.quiet => state'.orders = r.prev.orders)
                 /\ state'.error = LoadError
                 /\ state'.filters = r.argFilters
                 /\ state'.pagination.page = 1
      ]_vars

\* a failed apply_filters reload issued from page 2: the page shown before is kept
C1_Witness ==
    /\ out.op = "reload_failed"
    /\ out.cause = "apply_filters"
    /\ state.filters.status = "NEW"
    /\ state.pagination.page = 1
    /\ state.error = LoadError
    /\ Len(state.orders) = 1

(* C2: change_page(n) issues a reload, for page n with the active filters   *)
(* and the current page size, only when 1 <= n <= total_pages.              *)
C2_ChangePageInRange ==
    [][ out'.op = "change_page" =>
           \E r \in BagToSet(reloads') :
              /\ Issues(r)
              /\ r.op = "change_page"
              /\ r.call = [filters |-> state.filters, page |-> r.argN,
                           page_size |-> state.pagination.page_size]
              /\ 1 <= r.argN
              /\ r.argN <= totalPages
      ]_vars

(* C3: a successful set_status / set_executor changes exactly the cached    *)
(* record with that order id, in that field only; the other records, the    *)
(* filters, the page position, loading and error stay, no reload is issued  *)
(* and success is signalled.                                                *)
C3_EditSuccess ==
    [][ \A e \in BagToSet(edits) :
           (out'.op = "edit_ok" /\ SettlesEdit(e)) =>
              /\ DOMAIN state'.orders = DOMAIN state.orders
              /\ \A k \in DOMAIN state.orders :
                    state'.orders[k] =
                       IF state.orders[k].id # e.id THEN state.orders[k]
                       ELSE IF e.kind = "status"
                            THEN [state.orders[k] EXCEPT !.status = e.status]
                            ELSE [state.orders[k] EXCEPT
                                     !.executor_id = e.executor_id,
                                     !.executor = IF e.executor_id \in users
                                                  THEN e.executor_id ELSE NoExecutor]
              /\ state'.filters = state.filters
              /\ state'.pagination = state.pagination
              /\ state'.loading = state.loading
              /\ state'.error = state.error
              /\ reloads' = reloads
              /\ out'.toast = "success"
      ]_vars

\* a status edit has just succeeded on a page that holds other orders too
C3_Witness ==
    /\ out.op = "edit_ok"
    /\ out.cause = "status"
    /\ \E k \in DOMAIN state.orders : state.orders[k].status = "IN_PROGRESS"
    /\ \E k \in DOMAIN state.orders : state.orders[k].status = "NEW"

(* C4: a failed set_status / set_executor leaves the whole list state as it *)
(* was and signals a failure.                                               *)
C4_EditFailure ==
    [][ out'.op = "edit_failed" =>
           /\ state' = state
           /\ reloads' = reloads
           /\ out'.toast = "error"
      ]_vars

\* an edit the service refused has just failed, with orders on the page
C4_Witness ==
    /\ out.op = "edit_failed"
    /\ out.kind = "http_status"
    /\ state.orders # <<>>

(* C5: a reload that succeeds replaces the cached page by the response's    *)
(* records and the page position by the response's page, page_size and      *)
(* total; a reload that fails, in any of the three ways, keeps the cached   *)
(* records and records an error.                                            *)
C5_SnapshotReplace ==
    [][ \A r \in BagToSet(reloads) :
           /\ (out'.op = "reload_ok" /\ SettlesReload(r)) =>
                 /\ state'.orders = r.resp[1].orders
                 /\ state'.pagination = PageOf(r.resp[1])
           /\ (out'.op = "reload_failed" /\ SettlesReload(r)) =>
                 /\ out'.kind \in FailureKinds
                 /\ state'.orders = state.orders
                 /\ (r.quiet => state'.orders = r.prev.orders)
                 /\ state'.error = LoadError
      ]_vars

\* a reload whose body did not parse has just failed over a non-empty page
C5_Witness ==
    /\ out.op = "reload_failed"
    /\ out.kind = "bad_body"
    /\ state.orders # <<>>
    /\ state.error = LoadError

(* C6: loading is true exactly while a reload has been issued and has not   *)
(* settled, and no set_status / set_executor step changes it.               *)
EditSteps == {"set_status", "set_executor", "serve_patch", "edit_ok", "edit_failed"}

C6_Loading ==
    /\ [](state.loading <=> reloads # EmptyBag)
    /\ [][out'.op \in EditSteps => state'.loading = state.loading]_vars

\* the flag has just been cleared by a reload that failed
C6_Witness ==
    /\ out.op = "reload_failed"
    /\ ~state.loading
    /\ reloads = EmptyBag

(* C7 as claimed: change_page_size(size) sets the current page to 1 and     *)
(* issues one reload for (active filters, 1, size).                         *)
C7_PageResetByCommand ==
    [][ out'.op = "change_page_size" =>
           /\ state'.pagination.page = 1
           /\ \E r \in BagToSet(reloads') :
                 /\ Issues(r)
                 /\ r.call = [filters |-> state.filters, page |-> 1, page_size |-> r.argN]
      ]_vars

(* C7 as amended: change_page_size(size) issues one reload for (active      *)
(* filters, 1, size) and itself leaves filters and page position alone; the *)
(* current page becomes 1 and the page size becomes size when that reload   *)
(* succeeds, and both stay as they were when it fails.                      *)
C7_PageSizeChange ==
    [][ /\ out'.op = "change_page_size" =>
              \E r \in BagToSet(reloads') :
                 /\ Issues(r)
                 /\ r.op = "change_page_size"
                 /\ r.call = [filters |-> state.filters, page |-> 1, page_size |-> r.argN]
                 /\ state'.filters = state.filters
                 /\ state'.pagination = state.pagination
        /\ \A r \in BagToSet(reloads) :
              (SettlesReload(r) /\ r.op = "change_page_size") =>
                 /\ out'.op = "reload_ok" =>
                       /\ state'.pagination.page = 1
                       /\ state'.pagination.page_size = r.argN
                 /\ out'.op = "reload_failed" =>
                       state'.pagination = r.prev.pagination
      ]_vars

\* a page-size reload is outstanding and the current page is still not 1
C7_Witness ==
    \E r \in BagToSet(reloads) :
       /\ r.op = "change_page_size"
       /\ r.argN # state.pagination.page_size
       /\ state.pagination.page # 1

(* C8: whenever total_pages > 0, the current page C of the page position    *)
(* satisfies 1 <= C <= total_pages.                                         *)
C8_PageWithinRange ==
    totalPages > 0 =>
       /\ 1 <= state.pagination.page
       /\ state.pagination.page <= totalPages

(* C9: refresh() issues one reload for exactly the active filters, the      *)
(* current page and the current page size, changes neither, and is on offer *)
(* whenever no reload is outstanding, whatever the error state.             *)
C9_Refresh ==
    /\ [](state.loading \/ ENABLED Refresh)
    /\ [][ out'.op = "refresh" =>
              \E r \in BagToSet(reloads') :
                 /\ Issues(r)
                 /\ r.op = "refresh"
                 /\ r.call = [filters |-> state.filters,
                              page |-> state.pagination.page,
                              page_size |-> state.pagination.page_size]
                 /\ state'.filters = state.filters
                 /\ state'.pagination = state.pagination
         ]_vars

\* a refresh of page 2 under a status filter, issued while an error was shown
C9_Witness ==
    \E r \in BagToSet(reloads) :
       /\ r.op = "refresh"
       /\ r.prev.error = LoadError
       /\ r.call.page = 2
       /\ r.call.filters.status = "NEW"

(* C10: two outstanding edits on different order ids are independent: a     *)
(* success changes only the record of its own order, a failure changes      *)
(* nothing, and the cached page that results when both have settled is the  *)
(* same whichever of the two settles first, whatever the two outcomes.      *)
EditOutcome(st, e, ok) == IF ok THEN editSuccessState(st, e) ELSE editFailureState(st, e)

C10_IndependentEdits ==
    \A e1, e2 \in BagToSet(edits) :
       e1.id # e2.id =>
          /\ \A ok1, ok2 \in BOOLEAN :
                EditOutcome(EditOutcome(state, e1, ok1), e2, ok2)
                   = EditOutcome(EditOutcome(state, e2, ok2), e1, ok1)
          /\ \A k \in DOMAIN state.orders :
                state.orders[k].id # e1.id =>
                   EditOutcome(state, e1, TRUE).orders[k] = state.orders[k]
          /\ EditOutcome(state, e1, FALSE) = state

\* the first of two edits on different orders of the page has succeeded and
\* the second, already applied by the service, is still outstanding
C10_Witness ==
    /\ out.op = "edit_ok"
    /\ \E e \in BagToSet(edits) :
          /\ e.phase = "applied"
          /\ e.kind = "executor"
          /\ e.executor_id # NoExecutor
          /\ \E k, j \in DOMAIN state.orders :
                /\ state.orders[k].id = e.id
                /\ state.orders[j].id # e.id
                /\ state.orders[j].executor_id # NoExecutor

----------------------------------------------------------------------------
(* The page window, checked for the page counts that SpecPaging reaches and *)
(* for every current page up to one past the largest page count             *)

WindowInputs == 0..(MaxWindowPages + 1)
window == getPageNumbers(state.pagination.page, totalPages)
Concrete(w) == {k \in DOMAIN w : w[k] # Ellipsis}

(* C11: for 0 <= T <= 5 and every current page C the page window is the     *)
(* sequence 1..T, of length T, without ellipsis: empty for T = 0 and <<1>>  *)
(* for T = 1.                                                               *)
C11_SmallWindow ==
    totalPages <= 5 =>
       \A C \in WindowInputs :
          LET w == getPageNumbers(C, totalPages)
          IN /\ Len(w) = totalPages
             /\ \A i \in 1..totalPages : w[i] = i
             /\ (totalPages = 0 => w = <<>>)
             /\ (totalPages = 1 => w = <<1>>)

\* five pages, the third shown
C11_Witness ==
    /\ ~state.loading
    /\ totalPages = 5
    /\ state.pagination.page = 3
    /\ window = <<1, 2, 3, 4, 5>>

(* C12: for T > 5 and C in 1..3 the page window is 1, 2, 3, 4, ellipsis, T. *)
C12_NearStart ==
    totalPages > 5 =>
       \A C \in 1..3 :
          getPageNumbers(C, totalPages) = <<1, 2, 3, 4, Ellipsis, totalPages>>

\* six pages, the third shown: page 4 once, page 5 behind the ellipsis
C12_Witness ==
    /\ ~state.loading
    /\ totalPages = 6
    /\ state.pagination.page = 3
    /\ window = <<1, 2, 3, 4, Ellipsis, 6>>

(* C13: for T > 5 and C in T-2..T the page window is 1, ellipsis, T-3, T-2, *)
(* T-1, T.                                                                  *)
C13_NearEnd ==
    totalPages > 5 =>
       \A C \in (totalPages - 2)..totalPages :
          getPageNumbers(C, totalPages) =
             <<1, Ellipsis, totalPages - 3, totalPages - 2, totalPages - 1, totalPages>>

\* seven pages, the fifth shown: the first page of the end of the list
C13_Witness ==
    /\ ~state.loading
    /\ totalPages = 7
    /\ state.pagination.page = 5
    /\ window = <<1, Ellipsis, 4, 5, 6, 7>>

(* C14: for T > 5 and 3 < C < T-2 the page window is 1, ellipsis, C-1, C,   *)
(* C+1, ellipsis, T; C = 4 and C = T-3 are such pages.                      *)
C14_Middle ==
    totalPages > 5 =>
       \A C \in WindowInputs :
          (3 < C /\ C < totalPages - 2) =>
             getPageNumbers(C, totalPages) =
                <<1, Ellipsis, C - 1, C, C + 1, Ellipsis, totalPages>>

\* nine pages, the sixth shown: C = T-3
C14_Witness ==
    /\ ~state.loading
    /\ totalPages = 9
    /\ state.pagination.page = 6
    /\ window = <<1, Ellipsis, 5, 6, 7, Ellipsis, 9>>

(* C15: for T >= 0 and C in 1..T the concrete page numbers of the page      *)
(* window are strictly increasing from left to right, so none occurs twice. *)
C15_Increasing ==
    \A C \in 1..totalPages :
       LET w == getPageNumbers(C, totalPages)
       IN \A i, j \in Concrete(w) : i < j => w[i] < w[j]

\* seven pages, the fourth shown: a window with two ellipses
C15_Witness ==
    /\ ~state.loading
    /\ totalPages = 7
    /\ state.pagination.page = 4
    /\ Cardinality(DOMAIN window \ Concrete(window)) = 2

(* C16: every change_page command carries a concrete page number that is    *)
(* an entry of the page window on screen; an ellipsis entry is not a        *)
(* navigation target.                                                       *)
C16_EllipsisInert ==
    [][ out'.op = "change_page" =>
           \E r \in BagToSet(reloads') :
              /\ Issues(r)
              /\ r.op = "change_page"
              /\ r.argN # Ellipsis
              /\ r.argN >= 1
              /\ \E k \in Concrete(window) : window[k] = r.argN
              /\ r.call.page = r.argN
      ]_vars

\* the last page was chosen from a window that hides pages behind an ellipsis
C16_Witness ==
    \E r \in BagToSet(reloads) :
       /\ r.op = "change_page"
       /\ r.prev.pagination.page = 1
       /\ r.argN = 7
       /\ r.prev.pagination.total = 61

----------------------------------------------------------------------------
(* C17: a search returns exactly the records that satisfy every filter      *)
(* field that is present, an absent field constraining nothing, with price  *)
(* bounds inclusive at both ends.                                           *)
Satisfies(record, filters) ==
    /\ (filters.status # NoStatus => record.status = filters.status)
    /\ (filters.executor_id # NoExecutor => record.executor_id = filters.executor_id)
    /\ (filters.min_price # NoPrice =>
           record.total_price # NoPrice /\ record.total_price >= filters.min_price)
    /\ (filters.max_price # NoPrice =>
           record.total_price # NoPrice /\ record.total_price <= filters.max_price)

C18_TotalPages ==
    LET total == state.pagination.total
        size == state.pagination.page_size
    IN /\ size > 0
       /\ totalPages >= 0
       /\ totalPages * size >= total
       /\ (totalPages - 1) * size < total
       /\ (total = 0 => totalPages = 0)

\* 21 orders in pages of 10: three pages, the last one not full
C18_Witness ==
    /\ ~state.loading
    /\ state.pagination.total = 21
    /\ state.pagination.page_size = 10
    /\ totalPages = 3

(* C19 as claimed: every cached order's status is one of the four values    *)
(* and its executor reference is absent or the id of a user in the loaded   *)
(* users list.                                                              *)
C19_ExecutorLoaded ==
    \A k \in DOMAIN state.orders :
       /\ state.orders[k].status \in OrderStatus
       /\ state.orders[k].executor_id \in {NoExecutor} \cup users

(* C19 as amended: every cached order's status is one of the four values    *)
(* and its executor reference is absent or the id of a user of the service; *)
(* every set_status carries one of the four values and every set_executor   *)
(* carries no executor or an id of the loaded users list, so the service's  *)
(* orders stay valid as well.                                               *)
C19_ValidReferences ==
    /\ \A k \in DOMAIN state.orders :
          /\ state.orders[k].status \in OrderStatus
          /\ state.orders[k].executor_id \in {NoExecutor} \cup UserIds
    /\ \A e \in BagToSet(edits) :
          /\ e.kind = "status" => e.status \in OrderStatus
          /\ e.kind = "executor" => e.executor_id \in {NoExecutor} \cup users
    /\ \A i \in DOMAIN srv :
          /\ srv[i].status \in OrderStatus
          /\ srv[i].executor_id \in {NoExecutor} \cup UserIds

\* order 4, delivered and assigned to user 3, has been reassigned to user 2
C19_Witness ==
    /\ out.op = "edit_ok"
    /\ out.cause = "executor"
    /\ \E k \in DOMAIN state.orders :
          /\ state.orders[k].id = 4
          /\ state.orders[k].executor_id = 2
          /\ state.orders[k].status = "DELIVERED"

(* C20: at most one reload is in flight: every control that issues a reload *)
(* is disabled while loading is true, a reload is issued only when none is  *)
(* outstanding, and the response applied is that of the only request.       *)
ReloadCommands == {"apply_filters", "change_page", "change_page_size", "refresh"}

C20_OneReload ==
    /\ [](BagCardinality(reloads) <= 1)
    /\ [](state.loading =>
             /\ ~ENABLED Refresh
             /\ ~ENABLED ClickPrevious
             /\ ~ENABLED ClickNext
             /\ ~ENABLED ClickPageNumber
             /\ \A size \in pageSizes : ~ENABLED ChangePageSize(size)
             /\ \A c \in Criteria : ~ENABLED ApplyFilters(c))
    /\ [][ /\ out'.op \in ReloadCommands =>
                 /\ ~state.loading
                 /\ reloads = EmptyBag
                 /\ BagCardinality(reloads') = 1
           /\ \A r \in BagToSet(reloads) :
                 (out'.op = "reload_ok" /\ SettlesReload(r)) =>
                    /\ reloads' = EmptyBag
                    /\ state'.pagination = PageOf(r.resp[1])
         ]_vars

\* a second reload, issued after the first page had arrived
C20_Witness ==
    \E r \in BagToSet(reloads) :
       /\ r.op = "change_page"
       /\ r.prev.pagination.total = NumOrders
       /\ ~r.prev.loading
       /\ BagCardinality(reloads) = 1

----------------------------------------------------------------------------
(* C21: whenever no request is in flight and the last reload succeeded,     *)
(* every cached order's status and executor reference equal the service's   *)
(* current values for that order, also after an edit and a reload that were *)
(* outstanding together, in whichever order their responses arrived.        *)
C21_CacheMatchesService ==
    (reloads = EmptyBag /\ edits = EmptyBag /\ state.error = NoError) =>
       \A k \in DOMAIN state.orders :
          /\ state.orders[k].status = srv[state.orders[k].id].status
          /\ state.orders[k].executor_id = srv[state.orders[k].id].executor_id

(* C22: when the reload of change_page, change_page_size or refresh fails,  *)
(* page position and filters are what they were before the command; these   *)
(* commands change neither when issued, and apply_filters is the only       *)
(* command that changes filters or page before its reload settles.          *)
PositionKeepers == {"change_page", "change_page_size", "refresh"}

C22_FailedReloadKeepsPosition ==
    [][ /\ out'.op \in PositionKeepers =>
              /\ state'.pagination = state.pagination
              /\ state'.filters = state.filters
        /\ \A r \in BagToSet(reloads) :
              (out'.op = "reload_failed" /\ SettlesReload(r) /\ r.op \in PositionKeepers) =>
                 /\ state'.pagination = r.prev.pagination
                 /\ state'.filters = r.prev.filters
        /\ (state'.pagination # state.pagination \/ state'.filters # state.filters) =>
              out'.op \in {"apply_filters", "reload_ok"}
      ]_vars

\* on page 2 of 3 in pages of 10, asking for pages of 20 has failed
C22_Witness ==
    /\ out.op = "reload_failed"
    /\ out.cause = "change_page_size"
    /\ state.pagination.page = 2
    /\ state.pagination.page_size = 10
    /\ state.error = LoadError

(* C23: for T >= 1 and C in 1..T the page window contains C, begins with    *)
(* page 1 and ends with page T.                                             *)
C23_WindowEnds ==
    \A C \in 1..totalPages :
       LET w == getPageNumbers(C, totalPages)
       IN /\ \E k \in DOMAIN w : w[k] = C
          /\ w[1] = 1
          /\ w[Len(w)] = totalPages

\* nine pages, the seventh shown: the first page of the end of the list
C23_Witness ==
    /\ ~state.loading
    /\ totalPages = 9
    /\ state.pagination.page = 7
    /\ window[1] = 1
    /\ window[Len(window)] = 9

====
